---- MODULE Spec2Model ----
(***************************************************************************)
(* Model of check_opnsense_stats.py: a monitoring probe that reads CPU      *)
(* load, memory usage and disk usage from two API endpoints, classifies     *)
(* each against warning/critical thresholds and prints one status line.     *)
(*                                                                         *)
(* Conventions of the model                                                 *)
(*  - Numbers are integers.  Load averages, byte counts and percentages    *)
(*    are drawn from small integer sets; the memory percentage             *)
(*    used/total*100 is compared with its thresholds by cross              *)
(*    multiplication (total > 0 on that path), i.e. in exact arithmetic.   *)
(*  - Python strings that the program inspects (mount points) are          *)
(*    sequences of one-character strings, so that startswith, replace and  *)
(*    strip are computed, not assumed.                                     *)
(*  - A JSON value is a record [t, n]: t is its shape ("absent" for a key  *)
(*    that is not in the object, "null", "num", "numstr" for a string that *)
(*    parses as a number, "badstr" for a string that does not) and n the   *)
(*    number it carries.                                                   *)
(*  - An exception that no handler catches ends the run the way the        *)
(*    interpreter does: a traceback on stderr, nothing more on stdout,     *)
(*    exit status 1.                                                       *)
(***************************************************************************)
EXTENDS Integers, Sequences, FiniteSets, TLC

VARIABLES
    pc,                     \* position in main(): start, cpu, mem, call_disk,
                            \* loop, summary, output, exit
    sys_data,               \* decoded system_resources response
    disk_data,              \* decoded system_disk response
    overall_status,         \* main: overall_status
    message_parts,          \* main: message_parts
    perfdata_parts,         \* main: perfdata_parts
    processed_filesystems,  \* main: processed_filesystems
    available_mounts,       \* main: available_mounts
    idx,                    \* position of the for loop in the devices list
    calls,                  \* endpoints requested so far, in order
    metric_sev,             \* severity of every metric evaluated so far, in order
    stdout,                 \* lines printed
    traceback,              \* uncaught exception, "" when none
    exit_code,              \* process exit status, NoExit while running
    th_in,                  \* arguments of a direct call of check_threshold
    th_out                  \* its result, NoResult before the call

vars == <<pc, sys_data, disk_data, overall_status, message_parts, perfdata_parts,
          processed_filesystems, available_mounts, idx, calls, metric_sev,
          stdout, traceback, exit_code, th_in, th_out>>

----------------------------------------------------------------------------
(* Bounds of the model *)

\* Longest devices list a system_disk response carries
MaxDevices == 2
\* Arguments of a direct call of check_threshold range over -MaxValue..MaxValue
MaxValue == 3

----------------------------------------------------------------------------
(* Program constants *)

DEFAULT_CPU_WARN == 5
DEFAULT_CPU_CRIT == 10
DEFAULT_MEM_WARN == 75
DEFAULT_MEM_CRIT == 90
DEFAULT_DISK_WARN == 80
DEFAULT_DISK_CRIT == 95

TIMEOUT == 15

API_SYSTEM_RESOURCES == "/api/diagnostics/system/system_resources"
API_SYSTEM_DISK == "/api/diagnostics/system/system_disk"

\* Mount points, as character sequences
Root == <<"/">>
Usr == <<"/", "u", "s", "r">>
Var == <<"/", "v", "a", "r">>
Home == <<"/", "h", "o", "m", "e">>
Cf == <<"/", "c", "f">>
VarLog == <<"/", "v", "a", "r", "/", "l", "o", "g">>

PRIMARY_MOUNT_POINTS == <<Root, Usr, Var, Home, Cf, VarLog>>

\* The prefixes line 199 excludes from the diagnostic list
PSEUDO_PREFIXES ==
    << <<"/", "d", "e", "v">>,
       <<"/", "p", "r", "o", "c">>,
       <<"/", "t", "m", "p">>,
       <<"/", "v", "a", "r", "/", "r", "u", "n">> >>

\* STATUS_MAP.get(status, "UNKNOWN")
STATUS_MAP(status) ==
    CASE status = 0 -> "OK"
      [] status = 1 -> "WARNING"
      [] status = 2 -> "CRITICAL"
      [] status = 3 -> "UNKNOWN"
      [] OTHER -> "UNKNOWN"

\* The run's thresholds: parse_args with no threshold flag given
args ==
    [cpu_warn |-> DEFAULT_CPU_WARN, cpu_crit |-> DEFAULT_CPU_CRIT,
     mem_warn |-> DEFAULT_MEM_WARN, mem_crit |-> DEFAULT_MEM_CRIT,
     disk_warn |-> DEFAULT_DISK_WARN, disk_crit |-> DEFAULT_DISK_CRIT]

----------------------------------------------------------------------------
(* Python helpers *)

\* Variant: the latest status replaces the running one instead of being folded in
MaxOverwrite(a, b) == b

Max(a, b) == IF a >= b THEN a ELSE b

\* str.startswith(prefix)
StartsWith(s, prefix) ==
    /\ Len(s) >= Len(prefix)
    /\ \A i \in 1..Len(prefix) : s[i] = prefix[i]

\* str.startswith(tuple of prefixes)
StartsWithAny(s, prefixes) ==
    \E i \in DOMAIN prefixes : StartsWith(s, prefixes[i])

\* Variant: a prefix match in place of tuple membership
InPrimaryByPrefix(mp) ==
    /\ mp.t = "str"
    /\ \E i \in DOMAIN PRIMARY_MOUNT_POINTS : StartsWith(mp.s, PRIMARY_MOUNT_POINTS[i])

\* x in PRIMARY_MOUNT_POINTS, for a JSON value x: true only of a string equal
\* to one of the six entries
InPrimary(mp) ==
    /\ mp.t = "str"
    /\ \E i \in DOMAIN PRIMARY_MOUNT_POINTS : PRIMARY_MOUNT_POINTS[i] = mp.s

\* str.replace('/', '_')
ReplaceSlash(s) == [i \in DOMAIN s |-> IF s[i] = "/" THEN "_" ELSE s[i]]

RECURSIVE LStrip(_)
LStrip(s) == IF s # <<>> /\ Head(s) = "_" THEN LStrip(Tail(s)) ELSE s

RECURSIVE RStrip(_)
RStrip(s) ==
    IF s # <<>> /\ s[Len(s)] = "_" THEN RStrip(SubSeq(s, 1, Len(s) - 1)) ELSE s

\* mountpoint.replace('/', '_').strip('_') or 'root'
PerfdataLabel(s) ==
    LET stripped == RStrip(LStrip(ReplaceSlash(s)))
    IN  IF stripped = <<>> THEN <<"r", "o", "o", "t">> ELSE stripped

\* Variant: strict comparisons, the thresholds themselves one level lower
check_threshold_strict(value, warn, crit) ==
    IF value > crit THEN <<2, "CRITICAL">>
    ELSE IF value > warn THEN <<1, "WARNING">>
    ELSE <<0, "OK">>

\* check_threshold(value, warn, crit)
check_threshold(value, warn, crit) ==
    IF value >= crit THEN <<2, "CRITICAL">>
    ELSE IF value >= warn THEN <<1, "WARNING">>
    ELSE <<0, "OK">>

\* f"{x:.2f}" and f"{x:.1f}": the number in hundredths, in tenths
Format2f(x) == x * 100
Format1f(x) == x * 10
\* f"{used / total * 100:.1f}", total > 0: tenths of a percent, rounded
FormatPct1f(used, total) == (2000 * used + total) \div (2 * total)

----------------------------------------------------------------------------
(* JSON values and what the Python conversions make of them *)

J(t, n) == [t |-> t, n |-> n]
Absent == J("absent", 0)
Null == J("null", 0)
BadStr == J("badstr", 0)
Num(n) == J("num", n)
NumStr(n) == J("numstr", n)

NoExc == "none"
Result(exc, val) == [exc |-> exc, val |-> val]

\* int(x) for a JSON value x
PyInt(v) ==
    CASE v.t = "num" -> Result(NoExc, v.n)
      [] v.t = "numstr" -> Result(NoExc, v.n)
      [] v.t = "badstr" -> Result("ValueError", 0)
      [] OTHER -> Result("TypeError", 0)

\* float(x) for a JSON value x
PyFloat(v) ==
    CASE v.t = "num" -> Result(NoExc, v.n)
      [] v.t = "numstr" -> Result(NoExc, v.n)
      [] v.t = "badstr" -> Result("ValueError", 0)
      [] OTHER -> Result("TypeError", 0)

\* d[key] for a key of an object: KeyError when the key is absent
Subscript(v) == IF v.t = "absent" THEN "KeyError" ELSE NoExc

\* d.get(key, default)
Get(v, default) == IF v.t = "absent" THEN default ELSE v

\* Lines 116-119: the 1-minute load, or the exception raised on the way.
\* A numstr stands for "n, ..., ...": every component parses and the first is n.
CpuExtract(sys) ==
    LET load_avg_str == Get(sys.load_average, NumStr(0))
    IN  CASE load_avg_str.t = "numstr" -> Result(NoExc, load_avg_str.n)
          [] load_avg_str.t = "badstr" -> Result("ValueError", 0)
          [] OTHER -> Result("AttributeError", 0)

\* Lines 132-133: mem_total and mem_used, or the first exception raised
MemExtract(sys) ==
    LET mem == sys.memory
        none == [exc |-> NoExc, total |-> 0, used |-> 0]
    IN  IF mem.t = "absent" THEN [none EXCEPT !.exc = "KeyError"]
        ELSE IF mem.t # "obj" THEN [none EXCEPT !.exc = "TypeError"]
        ELSE IF Subscript(mem.total) # NoExc
            THEN [none EXCEPT !.exc = Subscript(mem.total)]
        ELSE IF PyInt(mem.total).exc # NoExc
            THEN [none EXCEPT !.exc = PyInt(mem.total).exc]
        ELSE IF Subscript(mem.used) # NoExc
            THEN [none EXCEPT !.exc = Subscript(mem.used)]
        ELSE IF PyInt(mem.used).exc # NoExc
            THEN [none EXCEPT !.exc = PyInt(mem.used).exc]
        ELSE [exc |-> NoExc, total |-> PyInt(mem.total).val,
              used |-> PyInt(mem.used).val]

\* Line 171: float(fs.get('used_pct', 0))
DiskExtract(fs) == PyFloat(Get(fs.used_pct, Num(0)))

\* disk_data.get('devices', []) as the list the for statement iterates
Devices(disk) == IF disk.devices.t = "list" THEN disk.devices.items ELSE <<>>

\* Iterating the devices value raises TypeError unless it is a list (or absent)
DevicesIterable(disk) == disk.devices.t \in {"absent", "list"}

----------------------------------------------------------------------------
(* Output fragments *)

NoMount == <<>>

Msg(text, mount, value, label, mounts) ==
    [text |-> text, mount |-> mount, value |-> value, label |-> label,
     mounts |-> mounts]

Perf(name, sub, value, warn, crit, bounded) ==
    [name |-> name, sub |-> sub, value |-> value, warn |-> warn, crit |-> crit,
     bounded |-> bounded]

CpuMsg(load, label) == Msg("CPU Load 1-min", NoMount, Format2f(load), label, <<>>)
CpuUnavailable == Msg("CPU Load data UNAVAILABLE", NoMount, 0, "", <<>>)
MemMsg(used, total, label) ==
    Msg("Memory", NoMount, FormatPct1f(used, total), label, <<>>)
MemTotalZero == Msg("Memory data UNAVAILABLE (Total=0)", NoMount, 0, "", <<>>)
MemUnavailable == Msg("Memory data UNAVAILABLE", NoMount, 0, "", <<>>)
DiskMsg(mount, pct, label) == Msg("Disk", mount, Format1f(pct), label, <<>>)
DiskParseError(mount) ==
    Msg("Disk data UNKNOWN (Parsing error on 'used_pct')", mount, 0, "", <<>>)
NoPrimaryFs(mounts) ==
    Msg("Disk check UNKNOWN: No primary filesystem found", NoMount, 0, "", mounts)

CpuPerf(load) ==
    Perf("cpu_load_1min", NoMount, Format2f(load), args.cpu_warn, args.cpu_crit, TRUE)
MemPctPerf(used, total) ==
    Perf("mem_usage_pct", NoMount, FormatPct1f(used, total),
         args.mem_warn, args.mem_crit, TRUE)
MemUsedPerf(used) == Perf("mem_used_bytes", NoMount, used, 0, 0, FALSE)
MemTotalPerf(total) == Perf("mem_total_bytes", NoMount, total, 0, 0, FALSE)
DiskPerf(mount, pct) ==
    Perf("disk_pct", PerfdataLabel(mount), Format1f(pct),
         args.disk_warn, args.disk_crit, TRUE)

\* One printed line: "<STATUS> - <messages> | <perfdata>"
Line(status, messages, perfdata) ==
    [status |-> status, messages |-> messages, perfdata |-> perfdata]

\* The diagnostic make_api_call prints for a failure of the given kind
ApiFailureMsg(kind, endpoint) ==
    CASE kind = "timeout" ->
            Msg("API call timed out", NoMount, TIMEOUT, endpoint, <<>>)
      [] kind = "request_error" ->
            Msg("API call failed", NoMount, 0, endpoint, <<>>)
      [] kind = "json_error" ->
            Msg("Failed to decode JSON response", NoMount, 0, endpoint, <<>>)
      [] OTHER ->
            Msg("An unexpected error occurred during API call", NoMount, 0,
                endpoint, <<>>)

----------------------------------------------------------------------------
(* The responses the two endpoints may return *)

Mnt == <<"/", "m", "n", "t">>
DevAda0 == <<"/", "d", "e", "v", "/", "a", "d", "a", "0">>

Str(s) == [t |-> "str", s |-> s]
NoMountKey == [t |-> "absent", s |-> <<>>]   \* the device has no mountpoint key
NumMount == [t |-> "num", s |-> <<>>]        \* mountpoint is a non-zero number

\* load_average: absent, a number (wrong type), a string that does not parse,
\* and strings whose first component is below, between and above the thresholds
LoadValues == {Absent, Num(5), BadStr, NumStr(3), NumStr(7), NumStr(12)}

MemObj(total, used) == [t |-> "obj", total |-> total, used |-> used]
MemoryValues ==
    {[t |-> "absent", total |-> Absent, used |-> Absent],
     [t |-> "null", total |-> Absent, used |-> Absent]}
    \cup {MemObj(t, Num(500)) : t \in {Absent, Null, BadStr, Num(0), NumStr(1000)}}
    \cup {MemObj(Num(0), u) : u \in {Absent, Null}}
    \cup {MemObj(Num(1000), u) : u \in {Absent, Null, BadStr, Num(800), NumStr(950)}}

SysResponses ==
    {[load_average |-> l, memory |-> m] : l \in LoadValues, m \in MemoryValues}

Device(mp, pct) == [mountpoint |-> mp, used_pct |-> pct]
DeviceValues ==
    {Device(Str(m), p) : m \in {Root, VarLog},
                         p \in {Absent, Null, BadStr, Num(50), NumStr(85), Num(96)}}
    \cup {Device(m, p) : m \in {Str(Mnt), Str(DevAda0), NoMountKey, NumMount},
                         p \in {Num(96)}}
    \cup {Device(Str(Mnt), BadStr)}

RECURSIVE SeqsUpTo(_, _)
SeqsUpTo(S, n) ==
    IF n = 0 THEN {<<>>}
    ELSE LET shorter == SeqsUpTo(S, n - 1)
         IN  shorter \cup {Append(q, x) : q \in shorter, x \in S}

DiskResponses ==
    {[devices |-> [t |-> "absent", items |-> <<>>]],
     [devices |-> [t |-> "null", items |-> <<>>]]}
    \cup {[devices |-> [t |-> "list", items |-> q]] :
            q \in SeqsUpTo(DeviceValues, MaxDevices)}

ApiFailures == {"timeout", "request_error", "json_error", "unexpected"}

NoData == [t |-> "none"]
NoExit == -1
NoResult == <<-1, "">>
NoCall == [value |-> 0, warn |-> 0, crit |-> 0]

----------------------------------------------------------------------------
(* The run *)

Init ==
    /\ pc = "start"
    /\ sys_data = NoData
    /\ disk_data = NoData
    /\ overall_status = 0
    /\ message_parts = <<>>
    /\ perfdata_parts = <<>>
    /\ processed_filesystems = 0
    /\ available_mounts = <<>>
    /\ idx = 0
    /\ calls = <<>>
    /\ metric_sev = <<>>
    /\ stdout = <<>>
    /\ traceback = ""
    /\ exit_code = NoExit
    /\ th_in = NoCall
    /\ th_out = NoResult

\* sys.exit(code)
Exit(code) ==
    /\ pc' = "exit"
    /\ exit_code' = code

\* An exception no handler catches: traceback on stderr, exit status 1
Uncaught(exc) ==
    /\ traceback' = exc
    /\ Exit(1)

\* Variant: the failure is reported but the exit status is the running status
ApiAbortWithStatus(kind, endpoint) ==
    /\ stdout' = Append(stdout, Line("UNKNOWN", <<ApiFailureMsg(kind, endpoint)>>, <<>>))
    /\ Exit(overall_status)

\* make_api_call failing: one UNKNOWN line, sys.exit(3)
ApiAbort(kind, endpoint) ==
    /\ stdout' = Append(stdout, Line("UNKNOWN", <<ApiFailureMsg(kind, endpoint)>>, <<>>))
    /\ Exit(3)

\* Line 111: make_api_call(..., API_SYSTEM_RESOURCES) returns the decoded body
CallResourcesOk ==
    /\ pc = "start"
    /\ UNCHANGED <<th_in, th_out>>
    /\ calls' = Append(calls, API_SYSTEM_RESOURCES)
    /\ \E resp \in SysResponses : sys_data' = resp
    /\ pc' = "cpu"
    /\ UNCHANGED <<disk_data, overall_status, message_parts, perfdata_parts,
                   processed_filesystems, available_mounts, idx, metric_sev,
                   stdout, traceback, exit_code>>

\* Line 111, lines 75-88: the call fails and the run ends
CallResourcesFail ==
    /\ pc = "start"
    /\ UNCHANGED <<th_in, th_out>>
    /\ calls' = Append(calls, API_SYSTEM_RESOURCES)
    /\ \E kind \in ApiFailures : ApiAbort(kind, API_SYSTEM_RESOURCES)
    /\ UNCHANGED <<sys_data, disk_data, overall_status, message_parts,
                   perfdata_parts, processed_filesystems, available_mounts, idx,
                   metric_sev, traceback>>

\* Lines 114-127: CPU load
CpuCheck ==
    /\ pc = "cpu"
    /\ UNCHANGED <<th_in, th_out>>
    /\ LET r == CpuExtract(sys_data)
           st == check_threshold(r.val, args.cpu_warn, args.cpu_crit)
       IN  CASE r.exc = NoExc ->
                  /\ overall_status' = Max(overall_status, st[1])
                  /\ message_parts' = Append(message_parts, CpuMsg(r.val, st[2]))
                  /\ perfdata_parts' = Append(perfdata_parts, CpuPerf(r.val))
                  /\ metric_sev' = Append(metric_sev, st[1])
                  /\ pc' = "mem"
                  /\ UNCHANGED <<traceback, exit_code>>
             [] r.exc \in {"KeyError", "IndexError", "ValueError"} ->
                  /\ message_parts' = Append(message_parts, CpuUnavailable)
                  /\ overall_status' = Max(overall_status, 3)
                  /\ metric_sev' = Append(metric_sev, 3)
                  /\ pc' = "mem"
                  /\ UNCHANGED <<perfdata_parts, traceback, exit_code>>
             [] OTHER ->
                  /\ Uncaught(r.exc)
                  /\ UNCHANGED <<overall_status, message_parts, perfdata_parts,
                                 metric_sev>>
    /\ UNCHANGED <<sys_data, disk_data, processed_filesystems, available_mounts,
                   idx, calls, stdout>>

\* Lines 130-151: memory usage
MemCheck ==
    /\ pc = "mem"
    /\ UNCHANGED <<th_in, th_out>>
    /\ LET r == MemExtract(sys_data)
           st == check_threshold(r.used * 100, args.mem_warn * r.total,
                                 args.mem_crit * r.total)
       IN  CASE r.exc = NoExc /\ r.total > 0 ->
                  /\ overall_status' = Max(overall_status, st[1])
                  /\ message_parts' = Append(message_parts, MemMsg(r.used, r.total, st[2]))
                  /\ perfdata_parts' = perfdata_parts \o
                        <<MemPctPerf(r.used, r.total), MemUsedPerf(r.used),
                          MemTotalPerf(r.total)>>
                  /\ metric_sev' = Append(metric_sev, st[1])
                  /\ pc' = "call_disk"
                  /\ UNCHANGED <<traceback, exit_code>>
             [] r.exc = NoExc /\ r.total <= 0 ->
                  /\ message_parts' = Append(message_parts, MemTotalZero)
                  /\ overall_status' = Max(overall_status, 3)
                  /\ metric_sev' = Append(metric_sev, 3)
                  /\ pc' = "call_disk"
                  /\ UNCHANGED <<perfdata_parts, traceback, exit_code>>
             [] r.exc \in {"KeyError", "ValueError"} ->
                  /\ message_parts' = Append(message_parts, MemUnavailable)
                  /\ overall_status' = Max(overall_status, 3)
                  /\ metric_sev' = Append(metric_sev, 3)
                  /\ pc' = "call_disk"
                  /\ UNCHANGED <<perfdata_parts, traceback, exit_code>>
             [] OTHER ->
                  /\ Uncaught(r.exc)
                  /\ UNCHANGED <<overall_status, message_parts, perfdata_parts,
                                 metric_sev>>
    /\ UNCHANGED <<sys_data, disk_data, processed_filesystems, available_mounts,
                   idx, calls, stdout>>

\* Line 156 with lines 158-159: the second call returns the decoded body
CallDiskOk ==
    /\ pc = "call_disk"
    /\ UNCHANGED <<th_in, th_out>>
    /\ calls' = Append(calls, API_SYSTEM_DISK)
    /\ \E resp \in DiskResponses : disk_data' = resp
    /\ processed_filesystems' = 0
    /\ available_mounts' = <<>>
    /\ idx' = 1
    /\ pc' = "loop"
    /\ UNCHANGED <<sys_data, overall_status, message_parts, perfdata_parts,
                   metric_sev, stdout, traceback, exit_code>>

\* Line 156, lines 75-88: the second call fails and the run ends
CallDiskFail ==
    /\ pc = "call_disk"
    /\ UNCHANGED <<th_in, th_out>>
    /\ calls' = Append(calls, API_SYSTEM_DISK)
    /\ \E kind \in ApiFailures : ApiAbort(kind, API_SYSTEM_DISK)
    /\ UNCHANGED <<sys_data, disk_data, overall_status, message_parts,
                   perfdata_parts, processed_filesystems, available_mounts, idx,
                   metric_sev, traceback>>

\* Line 162: the devices value cannot be iterated
DiskIterError ==
    /\ pc = "loop"
    /\ UNCHANGED <<th_in, th_out>>
    /\ ~DevicesIterable(disk_data)
    /\ Uncaught("TypeError")
    /\ UNCHANGED <<sys_data, disk_data, overall_status, message_parts,
                   perfdata_parts, processed_filesystems, available_mounts, idx,
                   calls, metric_sev, stdout>>

\* Lines 162-166: a device whose mount point is not in PRIMARY_MOUNT_POINTS
DiskSkip ==
    /\ pc = "loop"
    /\ UNCHANGED <<th_in, th_out>>
    /\ DevicesIterable(disk_data)
    /\ idx <= Len(Devices(disk_data))
    /\ ~InPrimary(Devices(disk_data)[idx].mountpoint)
    /\ idx' = idx + 1
    /\ UNCHANGED <<pc, sys_data, disk_data, overall_status, message_parts,
                   perfdata_parts, processed_filesystems, available_mounts,
                   calls, metric_sev, stdout, traceback, exit_code>>

\* Lines 162-192: a device whose mount point is in PRIMARY_MOUNT_POINTS
DiskEval ==
    /\ pc = "loop"
    /\ UNCHANGED <<th_in, th_out>>
    /\ DevicesIterable(disk_data)
    /\ idx <= Len(Devices(disk_data))
    /\ InPrimary(Devices(disk_data)[idx].mountpoint)
    /\ LET fs == Devices(disk_data)[idx]
           mountpoint == fs.mountpoint.s
           r == DiskExtract(fs)
           st == check_threshold(r.val, args.disk_warn, args.disk_crit)
       IN  /\ available_mounts' = Append(available_mounts, mountpoint)
           /\ IF r.exc = NoExc
              THEN /\ overall_status' = Max(overall_status, st[1])
                   /\ message_parts' =
                        Append(message_parts, DiskMsg(mountpoint, r.val, st[2]))
                   /\ perfdata_parts' =
                        Append(perfdata_parts, DiskPerf(mountpoint, r.val))
                   /\ processed_filesystems' = processed_filesystems + 1
                   /\ metric_sev' = Append(metric_sev, st[1])
              ELSE \* KeyError, ValueError, TypeError: all that DiskExtract raises
                   /\ message_parts' = Append(message_parts, DiskParseError(mountpoint))
                   /\ overall_status' = Max(overall_status, 3)
                   /\ metric_sev' = Append(metric_sev, 3)
                   /\ UNCHANGED <<perfdata_parts, processed_filesystems>>
    /\ idx' = idx + 1
    /\ UNCHANGED <<pc, sys_data, disk_data, calls, stdout, traceback, exit_code>>

\* Line 162: the list is exhausted
DiskLoopEnd ==
    /\ pc = "loop"
    /\ UNCHANGED <<th_in, th_out>>
    /\ DevicesIterable(disk_data)
    /\ idx > Len(Devices(disk_data))
    /\ pc' = "summary"
    /\ UNCHANGED <<sys_data, disk_data, overall_status, message_parts,
                   perfdata_parts, processed_filesystems, available_mounts, idx,
                   calls, metric_sev, stdout, traceback, exit_code>>

\* The test of the comprehension of lines 197-200 on one device: the mount
\* point is truthy and does not start with a pseudo prefix
IsApiMount(fs) ==
    /\ fs.mountpoint.t = "str"
    /\ fs.mountpoint.s # <<>>
    /\ ~StartsWithAny(fs.mountpoint.s, PSEUDO_PREFIXES)

\* Lines 197-200: all_api_mounts
AllApiMounts(disk) ==
    LET kept == SelectSeq(Devices(disk), IsApiMount)
    IN  [i \in DOMAIN kept |-> kept[i].mountpoint.s]

\* A truthy mount point that is no string has no startswith
ApiMountsRaise(disk) ==
    \E i \in DOMAIN Devices(disk) : Devices(disk)[i].mountpoint.t = "num"

\* Lines 195-204: the message for a run that evaluated no filesystem
DiskSummary ==
    /\ pc = "summary"
    /\ UNCHANGED <<th_in, th_out>>
    /\ IF processed_filesystems # 0
       THEN /\ pc' = "output"
            /\ UNCHANGED <<overall_status, message_parts, metric_sev, traceback,
                           exit_code>>
       ELSE IF ApiMountsRaise(disk_data)
       THEN /\ Uncaught("AttributeError")
            /\ UNCHANGED <<overall_status, message_parts, metric_sev>>
       ELSE /\ message_parts' =
                 Append(message_parts, NoPrimaryFs(AllApiMounts(disk_data)))
            /\ overall_status' = Max(overall_status, 3)
            /\ metric_sev' = Append(metric_sev, 3)
            /\ pc' = "output"
            /\ UNCHANGED <<traceback, exit_code>>
    /\ UNCHANGED <<sys_data, disk_data, perfdata_parts, processed_filesystems,
                   available_mounts, idx, calls, stdout>>

\* Lines 208-220: print the line and exit with the overall status
Output ==
    /\ pc = "output"
    /\ UNCHANGED <<th_in, th_out>>
    /\ stdout' = Append(stdout, Line(STATUS_MAP(overall_status), message_parts,
                                     perfdata_parts))
    /\ Exit(overall_status)
    /\ UNCHANGED <<sys_data, disk_data, overall_status, message_parts,
                   perfdata_parts, processed_filesystems, available_mounts, idx,
                   calls, metric_sev, traceback>>

Next ==
    \/ CallResourcesOk
    \/ CallResourcesFail
    \/ CpuCheck
    \/ MemCheck
    \/ CallDiskOk
    \/ CallDiskFail
    \/ DiskIterError
    \/ DiskSkip
    \/ DiskEval
    \/ DiskLoopEnd
    \/ DiskSummary
    \/ Output

Spec == Init /\ [][Next]_vars

----------------------------------------------------------------------------
(* check_threshold called directly, on arguments drawn from a bounded range *)

Values == (0 - MaxValue)..MaxValue

InitThreshold ==
    /\ pc = "threshold"
    /\ sys_data = NoData
    /\ disk_data = NoData
    /\ overall_status = 0
    /\ message_parts = <<>>
    /\ perfdata_parts = <<>>
    /\ processed_filesystems = 0
    /\ available_mounts = <<>>
    /\ idx = 0
    /\ calls = <<>>
    /\ metric_sev = <<>>
    /\ stdout = <<>>
    /\ traceback = ""
    /\ exit_code = NoExit
    /\ th_in \in [value : Values, warn : Values, crit : Values]
    /\ th_out = NoResult

CallThreshold ==
    /\ pc = "threshold"
    /\ th_out' = check_threshold(th_in.value, th_in.warn, th_in.crit)
    /\ pc' = "returned"
    /\ UNCHANGED <<sys_data, disk_data, overall_status, message_parts,
                   perfdata_parts, processed_filesystems, available_mounts, idx,
                   calls, metric_sev, stdout, traceback, exit_code, th_in>>

NextThreshold == CallThreshold

SpecThreshold == InitThreshold /\ [][NextThreshold]_vars

----------------------------------------------------------------------------
(* Vocabulary of the properties *)

RECURSIVE SeqMax(_)
SeqMax(q) == IF q = <<>> THEN 0 ELSE LET m == SeqMax(Tail(q))
                                     IN  IF Head(q) >= m THEN Head(q) ELSE m

\* The run ended and how
ResourcesCallFailed == pc = "exit" /\ sys_data = NoData
DiskCallFailed == pc = "exit" /\ Len(calls) = 2 /\ disk_data = NoData
Completed == pc = "exit" /\ disk_data # NoData /\ traceback = ""

\* The allow-list as the specification spells it
AllowList == {Root, Usr, Var, Home, Cf, VarLog}
AllowListed(fs) == fs.mountpoint.t = "str" /\ fs.mountpoint.s \in AllowList

\* The devices the loop has gone through
DevicesDone ==
    IF disk_data # NoData /\ DevicesIterable(disk_data)
    THEN SubSeq(Devices(disk_data), 1, idx - 1)
    ELSE <<>>

IsCpuPerf(p) == p.name = "cpu_load_1min"
IsMemPerf(p) == p.name \in {"mem_usage_pct", "mem_used_bytes", "mem_total_bytes"}
IsDiskPerf(p) == p.name = "disk_pct"
IsDiskFragment(m) ==
    m.text \in {"Disk", "Disk data UNKNOWN (Parsing error on 'used_pct')",
                "Disk check UNKNOWN: No primary filesystem found"}
IsNoPrimaryFs(m) == m.text = "Disk check UNKNOWN: No primary filesystem found"

----------------------------------------------------------------------------
C2_ApiFailureAborts ==
    /\ calls \in {<<>>, <<API_SYSTEM_RESOURCES>>,
                  <<API_SYSTEM_RESOURCES, API_SYSTEM_DISK>>}
    /\ ResourcesCallFailed =>
         /\ calls = <<API_SYSTEM_RESOURCES>>
         /\ exit_code = 3
         /\ Len(stdout) = 1
         /\ stdout[1].status = "UNKNOWN"
         /\ Len(stdout[1].messages) = 1
         /\ stdout[1].messages[1].label = API_SYSTEM_RESOURCES
         /\ stdout[1].perfdata = <<>>
         /\ metric_sev = <<>>
         /\ message_parts = <<>>
    /\ DiskCallFailed =>
         /\ exit_code = 3
         /\ Len(stdout) = 1
         /\ stdout[1].status = "UNKNOWN"
         /\ Len(stdout[1].messages) = 1
         /\ stdout[1].messages[1].label = API_SYSTEM_DISK
         /\ \A i \in DOMAIN message_parts : stdout[1].messages[1] # message_parts[i]
         /\ stdout[1].perfdata = <<>>
         /\ Len(metric_sev) = 2
         /\ idx = 0

\* The second call failed after CPU and memory fragments had been collected
C2_Witness ==
    /\ DiskCallFailed
    /\ Len(message_parts) = 2
    /\ Len(perfdata_parts) = 4
    /\ overall_status = 2

(* C3: a run that ends has an exit status in 0..3, has printed exactly one *)
(* line, and the status word of the line is the label of the exit status;  *)
(* a run that went through all checks exits with the overall severity.     *)
C3_ExitCodeMatchesLine ==
    pc = "exit" =>
        /\ exit_code \in 0..3
        /\ Len(stdout) = 1
        /\ stdout[1].status = STATUS_MAP(exit_code)
        /\ (sys_data # NoData /\ disk_data # NoData) => exit_code = overall_status

(* C4: for crit > warn, check_threshold returns CRITICAL exactly when      *)
(* value >= crit, WARNING exactly when warn <= value < crit and OK exactly *)
(* when value < warn; it returns one of the three on every input.          *)
C4_ThresholdClassification ==
    pc = "returned" =>
        /\ th_out \in {<<0, "OK">>, <<1, "WARNING">>, <<2, "CRITICAL">>}
        /\ th_in.crit > th_in.warn =>
             /\ th_out = <<2, "CRITICAL">> <=> th_in.value >= th_in.crit
             /\ th_out = <<1, "WARNING">> <=>
                  (th_in.warn <= th_in.value /\ th_in.value < th_in.crit)
             /\ th_out = <<0, "OK">> <=> th_in.value < th_in.warn

\* A negative value exactly at the warning threshold is classified WARNING
C4_Witness ==
    /\ pc = "returned"
    /\ th_in.crit > th_in.warn
    /\ th_in.value = th_in.warn
    /\ th_in.value < 0
    /\ th_out = <<1, "WARNING">>

\* The CPU and the memory step have been taken (or ended the run)
CpuStepTaken == sys_data # NoData /\ pc \notin {"start", "cpu"}
MemStepTaken == CpuStepTaken /\ Len(metric_sev) >= 1 /\ pc # "mem"

(* C5: when load_average is absent, of the wrong type or an unparseable    *)
(* string, the CPU step adds 'CPU Load data UNAVAILABLE', adds no          *)
(* cpu_load_1min perfdata and raises the overall severity to 3.            *)
C5_CpuDegradesToUnknown ==
    (CpuStepTaken /\ sys_data.load_average.t \in {"absent", "null", "num", "badstr"}) =>
        /\ Len(message_parts) >= 1
        /\ message_parts[1] = CpuUnavailable
        /\ \A i \in DOMAIN perfdata_parts : ~IsCpuPerf(perfdata_parts[i])
        /\ overall_status = 3

\* used_pct of a device is missing or does not parse as a float
UsedPctUnusable(fs) == fs.used_pct.t \in {"absent", "null", "badstr"}

(* C6: every allow-listed device the loop has gone through contributes     *)
(* one message fragment, in list order; for a device whose used_pct is     *)
(* missing or unparseable it is the parsing-error fragment of its mount    *)
(* point, the device adds no perfdata and the overall severity is 3.       *)
C6_DiskParseErrorPerDevice ==
    LET done == SelectSeq(DevicesDone, AllowListed)
        usable == SelectSeq(done, LAMBDA fs : ~UsedPctUnusable(fs))
    IN  (done # <<>>) =>
          /\ Len(message_parts) >= 2 + Len(done)
          /\ \A k \in DOMAIN done :
               IF UsedPctUnusable(done[k])
               THEN /\ message_parts[2 + k] = DiskParseError(done[k].mountpoint.s)
                    /\ overall_status = 3
               ELSE /\ message_parts[2 + k].text = "Disk"
                    /\ message_parts[2 + k].mount = done[k].mountpoint.s
          /\ Len(SelectSeq(perfdata_parts, IsDiskPerf)) = Len(usable)

\* The mount points the claim says the message lists
ListedMounts(disk) ==
    LET kept == SelectSeq(Devices(disk),
                          LAMBDA fs : /\ fs.mountpoint.t = "str"
                                      /\ fs.mountpoint.s # <<>>
                                      /\ ~StartsWithAny(fs.mountpoint.s, PSEUDO_PREFIXES))
    IN  [i \in DOMAIN kept |-> kept[i].mountpoint.s]

(* C7: a run that received a devices list (or none) and ended has printed  *)
(* the 'No primary filesystem found' message exactly when no allow-listed  *)
(* device was evaluated successfully; the message comes with overall       *)
(* severity 3 and lists the non-empty, non-pseudo mount points of the      *)
(* response.                                                               *)
C7_NoPrimaryFsIffNoneProcessed ==
    (pc = "exit" /\ disk_data # NoData /\ DevicesIterable(disk_data)) =>
        LET emitted == \E l \in DOMAIN stdout : \E i \in DOMAIN stdout[l].messages :
                          IsNoPrimaryFs(stdout[l].messages[i])
        IN  /\ emitted <=> processed_filesystems = 0
            /\ emitted =>
                 /\ exit_code = 3
                 /\ \E l \in DOMAIN stdout : \E i \in DOMAIN stdout[l].messages :
                      stdout[l].messages[i] = NoPrimaryFs(ListedMounts(disk_data))

\* A JSON value that is missing or that int() does not accept
IntUnusable(v) == v.t \in {"absent", "null", "badstr"}

(* C8: memory.total present and zero gives exactly the 'Total=0' message,  *)
(* no memory perfdata and overall severity 3; a missing or unparseable     *)
(* total or used gives the generic message; total > 0 gives the 'Memory'   *)
(* fragment and exactly three memory perfdata fragments.                   *)
C8_MemoryTotalZero ==
    MemStepTaken =>
        LET m == sys_data.memory
            total_zero == m.t = "obj" /\ ~IntUnusable(m.total) /\ m.total.n = 0
            unusable == m.t # "obj" \/ IntUnusable(m.total) \/ IntUnusable(m.used)
            mem_perf == SelectSeq(perfdata_parts, IsMemPerf)
        IN  /\ Len(message_parts) >= 2
            /\ total_zero =>
                 /\ message_parts[2] = MemTotalZero
                 /\ mem_perf = <<>>
                 /\ overall_status = 3
            /\ (~total_zero /\ unusable) =>
                 /\ message_parts[2] = MemUnavailable
                 /\ mem_perf = <<>>
                 /\ overall_status = 3
            /\ (~total_zero /\ ~unusable /\ m.total.n > 0) =>
                 /\ message_parts[2].text = "Memory"
                 /\ Len(mem_perf) = 3

(* C9: once the first call has succeeded the run goes on whatever the CPU  *)
(* and memory fields hold: the system_disk call is issued, and when it     *)
(* succeeds too the one printed line carries a CPU fragment, then a memory *)
(* fragment, then at least one disk fragment.                              *)
C9_MetricFailuresAreLocal ==
    (pc = "exit" /\ sys_data # NoData) =>
        /\ calls = <<API_SYSTEM_RESOURCES, API_SYSTEM_DISK>>
        /\ disk_data # NoData =>
             /\ Len(stdout) = 1
             /\ LET ms == stdout[1].messages
                IN  /\ Len(ms) >= 3
                    /\ ms[1].text \in {"CPU Load 1-min", "CPU Load data UNAVAILABLE"}
                    /\ ms[2].text \in {"Memory", "Memory data UNAVAILABLE",
                                       "Memory data UNAVAILABLE (Total=0)"}
                    /\ \A i \in 3..Len(ms) : IsDiskFragment(ms[i])

\* The loop stands at a device whose mount point is outside the allow-list
AtSkippedDevice ==
    /\ pc = "loop"
    /\ disk_data # NoData
    /\ DevicesIterable(disk_data)
    /\ idx <= Len(Devices(disk_data))
    /\ ~AllowListed(Devices(disk_data)[idx])

(* C10: the loop step on a device whose mount point is outside the         *)
(* allow-list leaves the overall severity, the message fragments, the      *)
(* perfdata fragments and the count of processed filesystems unchanged,    *)
(* whatever its used_pct.                                                  *)
C10_SkippedDeviceChangesNothing ==
    [][AtSkippedDevice =>
         /\ overall_status' = overall_status
         /\ message_parts' = message_parts
         /\ perfdata_parts' = perfdata_parts
         /\ processed_filesystems' = processed_filesystems
         /\ metric_sev' = metric_sev]_vars

\* The loop has gone past /mnt with used_pct 96 and nothing was recorded
C10_Witness ==
    /\ pc = "loop"
    /\ idx = 2
    /\ Devices(disk_data)[1] = Device(Str(Mnt), Num(96))
    /\ overall_status = 0
    /\ Len(message_parts) = 2
    /\ SelectSeq(perfdata_parts, IsDiskPerf) = <<>>
    /\ processed_filesystems = 0

====
